---- MODULE Spec2Model ----
(***************************************************************************)
(* Model of the attendance submission pipeline of src/main.py              *)
(* (submit_attendance, POST /api/attendance).                              *)
(*                                                                         *)
(* Python values are encoded as follows.                                   *)
(*   - Optional[T]: None is the empty tuple <<>>, a present value x is the *)
(*     one-element tuple <<x>>.                                            *)
(*   - str values of environment variables: sequences of one-character     *)
(*     strings, so that float() and truthiness are computed, not looked up.*)
(*   - float: a record [k, v] with k in {"fin", "inf", "nan"}; v is the    *)
(*     value of a finite float.  Coordinates are counted in units of       *)
(*     0.000899321606 degrees (100 m of great-circle arc); radii, and      *)
(*     accuracies are metres.                                              *)
(* The handler is split at every read of the environment and at every call *)
(* of a sink; pc is the source line the handler is about to execute.       *)
(***************************************************************************)
EXTENDS Integers, Sequences, FiniteSets, TLC

VARIABLES
    environ,              \* os.environ: variable name -> Optional[str]
    startup_environ,      \* history: os.environ when the process started
    pc,                   \* position of the handler
    payload,              \* AttendanceIn of the submission being handled
    office_lat,           \* Optional[float], line 73
    office_lng,           \* Optional[float], line 74
    office_radius,        \* Optional[float], line 75
    dist_m,               \* Optional[float], line 84 (None until computed)
    geofence_ok,          \* Optional[bool], lines 71, 85, 90
    record,               \* Optional[AttendanceRecord], line 93
    apps_script_url,      \* Optional[str], line 107
    photo_url_from_apps,  \* Optional[str], line 108
    forwarded_ok,         \* bool, line 109
    apps_script_error,    \* Optional[str], line 110
    inserted_id,          \* Optional[str], lines 143, 145
    outcome,              \* what the caller receives: "" while running
    response,             \* Optional[dict]: the body returned at line 148
    post_calls,           \* history: requests.post calls made by this run
    create_calls,         \* history: create_document calls made by this run
    stored,               \* history: Optional[record] handed to create_document
    sink_log,             \* history: sink events of this run, in order
    persist_failed,       \* history: create_document raised in this run
    forward_kind,         \* history: how the forwarder call of this run ended
    env_changes           \* history: number of changes of os.environ

vars == <<environ, startup_environ, pc, payload, office_lat, office_lng,
          office_radius, dist_m, geofence_ok, record, apps_script_url,
          photo_url_from_apps, forwarded_ok, apps_script_error, inserted_id,
          outcome, response, post_calls, create_calls, stored, sink_log,
          persist_failed, forward_kind, env_changes>>

locals == <<office_lat, office_lng, office_radius, dist_m, geofence_ok, record,
            apps_script_url, photo_url_from_apps, forwarded_ok,
            apps_script_error, inserted_id>>

history == <<post_calls, create_calls, stored, sink_log, persist_failed,
             forward_kind>>

----------------------------------------------------------------------------
(* Python values *)

None == <<>>

Some(x) == <<x>>

IsNone(x) == x = <<>>

Val(x) == x[1]

Fin(n) == [k |-> "fin", v |-> n]

Inf == [k |-> "inf", v |-> 0]

NaN == [k |-> "nan", v |-> 0]

\* bool(s) of a str: the empty string is falsy; bool(None) is False
Truthy(os) == ~IsNone(os) /\ Len(Val(os)) > 0

Digits == <<"0", "1", "2", "3", "4", "5", "6", "7", "8", "9">>

IsDigit(c) == \E i \in 1..10 : Digits[i] = c

DigitVal(c) == (CHOOSE i \in 1..10 : Digits[i] = c) - 1

RECURSIVE DecimalVal(_)
DecimalVal(s) ==
    IF s = <<>> THEN 0
    ELSE 10 * DecimalVal(SubSeq(s, 1, Len(s) - 1)) + DigitVal(s[Len(s)])

\* float(x) of line 61, 73, 74, 75: a decimal literal, "inf" or "nan" is a
\* float; any other str raises ValueError; None raises TypeError.
ParseFloat(os) ==
    IF IsNone(os) THEN [exc |-> "TypeError", val |-> NaN]
    ELSE LET s == Val(os) IN
         IF s = <<"i", "n", "f">> THEN [exc |-> "", val |-> Inf]
         ELSE IF s = <<"n", "a", "n">> THEN [exc |-> "", val |-> NaN]
         ELSE IF Len(s) > 0 /\ \A i \in 1..Len(s) : IsDigit(s[i])
              THEN [exc |-> "", val |-> Fin(DecimalVal(s))]
         ELSE [exc |-> "ValueError", val |-> NaN]

\* a > b on floats: every comparison with nan is False
Gt(a, b) ==
    IF a.k = "nan" \/ b.k = "nan" THEN FALSE
    ELSE IF a.k = "inf" THEN b.k # "inf"
    ELSE IF b.k = "inf" THEN FALSE
    ELSE a.v > b.v

\* a <= b on floats: every comparison with nan is False
Leq(a, b) ==
    IF a.k = "nan" \/ b.k = "nan" THEN FALSE
    ELSE IF b.k = "inf" THEN TRUE
    ELSE IF a.k = "inf" THEN FALSE
    ELSE a.v <= b.v

\* a - b on floats
Sub(a, b) ==
    IF a.k = "nan" \/ b.k = "nan" THEN NaN
    ELSE IF a.k = "inf" /\ b.k = "inf" THEN NaN
    ELSE IF a.k = "inf" \/ b.k = "inf" THEN Inf
    ELSE Fin(a.v - b.v)

\* least k with k * k >= n
CeilSqrt(n) == CHOOSE k \in 0..n : k * k >= n /\ \A j \in 0..(k - 1) : j * j < n

\* Lines 78-84.  math.sin and math.cos raise ValueError on an infinite
\* argument and return nan on nan.  For finite coordinates within a few
\* units of (0, 0) the great-circle distance is 100 m per unit of the
\* Euclidean offset; it is rounded up to a whole metre, which leaves the
\* comparison with a whole-metre radius unchanged.
Haversine(lat, lng, olat, olng) ==
    LET dlat == Sub(lat, olat)
        dlon == Sub(lng, olng)
    IN  IF "inf" \in {dlat.k, dlon.k, olat.k, lat.k}
        THEN [exc |-> "ValueError", val |-> NaN]
        ELSE IF "nan" \in {dlat.k, dlon.k, olat.k, lat.k}
        THEN [exc |-> "", val |-> NaN]
        ELSE [exc |-> "",
              val |-> Fin(CeilSqrt(10000 * (dlat.v * dlat.v + dlon.v * dlon.v)))]

----------------------------------------------------------------------------
(* Bounds of the model *)

\* number of changes of os.environ after startup (second specification)
MaxEnvChanges == 1

\* finite coordinates submitted are 0..MaxCoord
MaxCoord == 1

S(str) == Some(str)

\* the environments of the second specification at startup: every variable
\* is unset or holds its first well-formed value
WellFormed(name) ==
    CASE name = "MAX_ALLOWED_ACCURACY_M" -> S(<<"1", "0">>)
      [] name = "OFFICE_LAT" -> S(<<"0">>)
      [] name = "OFFICE_LNG" -> S(<<"0">>)
      [] name = "OFFICE_RADIUS_M" -> S(<<"1", "0", "0">>)
      [] name = "APPS_SCRIPT_URL" -> S(<<"u">>)
      [] name = "SHEETS_DASHBOARD_URL" -> S(<<"d">>)

EnvNames == {"MAX_ALLOWED_ACCURACY_M", "OFFICE_LAT", "OFFICE_LNG",
             "OFFICE_RADIUS_M", "APPS_SCRIPT_URL", "SHEETS_DASHBOARD_URL"}

EnvValues(name) ==
    CASE name = "MAX_ALLOWED_ACCURACY_M" -> {None, S(<<"1", "0">>), S(<<"x">>)}
      [] name = "OFFICE_LAT" -> {None, S(<<>>), S(<<"x">>), S(<<"0">>)}
      [] name = "OFFICE_LNG" -> {None, S(<<"x">>), S(<<"0">>)}
      [] name = "OFFICE_RADIUS_M" ->
            {None, S(<<"x">>), S(<<"0">>), S(<<"1", "0", "0">>), S(<<"n", "a", "n">>)}
      [] name = "APPS_SCRIPT_URL" -> {None, S(<<>>), S(<<"u">>)}
      [] name = "SHEETS_DASHBOARD_URL" -> {None, S(<<>>), S(<<"d">>)}

Environs == {e \in [EnvNames -> UNION {EnvValues(n) : n \in EnvNames}] :
                \A n \in EnvNames : e[n] \in EnvValues(n)}

\* json.loads reads 1e999 and Infinity as inf and NaN as nan; the float fields
\* of AttendanceIn accept both
Coords == {Fin(n) : n \in 0..MaxCoord} \cup {Inf, NaN}

Accuracies == {Fin(10), Fin(11), Fin(60)}

Payloads == [latitude : Coords, longitude : {Fin(n) : n \in 0..MaxCoord},
             accuracy_m : Accuracies]

NoPayload == [latitude |-> NaN, longitude |-> NaN, accuracy_m |-> NaN]


Replies ==
    [status : {200}, kind : {"nonjson", "array"}, photoUrl : {None}, photo_url : {None}]
    \cup [status : {200}, kind : {"object"},
          photoUrl : {None, Some(""), Some("p")}, photo_url : {None, Some(""), Some("q")}]
    \cup [status : {500}, kind : {"nonjson", "object"},
          photoUrl : {None, Some("p")}, photo_url : {None}]

\* str(e) of a requests exception; it may be the empty string
TransportErrors == {"", "timed out"}

----------------------------------------------------------------------------
(* The handler *)

\* os.getenv(name): None when the variable is unset
Getenv(name) == environ[name]

\* os.getenv(name, default)
GetenvDefault(name, default) ==
    IF IsNone(environ[name]) THEN Some(default) ELSE environ[name]

\* an exception leaves the handler: the caller receives `what`, no body
Leave(what) ==
    /\ pc' = "done"
    /\ outcome' = what
    /\ response' = None

\* the geofence gate moved behind the two sinks
Goto_GeofenceLast(stage) ==
    CASE stage = "accuracy" -> "l93"
      [] stage = "geofence" -> "l148"
      [] stage = "record" -> "l107"
      [] stage = "forward" -> "l143"
      [] stage = "persist" -> "l73"

\* the persistence write moved before the forwarder call
Goto_PersistFirst(stage) ==
    CASE stage = "accuracy" -> "l73"
      [] stage = "geofence" -> "l93"
      [] stage = "record" -> "l143"
      [] stage = "forward" -> "l148"
      [] stage = "persist" -> "l107"

\* The order of the stages of submit_attendance: the line control reaches
\* when a stage is left without an exception
Goto(stage) ==
    CASE stage = "accuracy" -> "l73"
      [] stage = "geofence" -> "l93"
      [] stage = "record" -> "l107"
      [] stage = "forward" -> "l143"
      [] stage = "persist" -> "l148"

Init ==
    /\ environ \in Environs
    /\ startup_environ = environ
    /\ pc = "idle"
    /\ payload = NoPayload
    /\ office_lat = None
    /\ office_lng = None
    /\ office_radius = None
    /\ dist_m = None
    /\ geofence_ok = None
    /\ record = None
    /\ apps_script_url = None
    /\ photo_url_from_apps = None
    /\ forwarded_ok = FALSE
    /\ apps_script_error = None
    /\ inserted_id = None
    /\ outcome = ""
    /\ response = None
    /\ post_calls = 0
    /\ create_calls = 0
    /\ stored = None
    /\ sink_log = <<>>
    /\ persist_failed = FALSE
    /\ forward_kind = "none"
    /\ env_changes = 0

\* Line 59: a request arrives (the previous one, if any, has been answered)
Submit ==
    /\ pc \in {"idle", "done"}
    /\ \E p \in Payloads : payload' = p
    /\ pc' = "l61"
    /\ office_lat' = None
    /\ office_lng' = None
    /\ office_radius' = None
    /\ dist_m' = None
    /\ geofence_ok' = None
    /\ record' = None
    /\ apps_script_url' = None
    /\ photo_url_from_apps' = None
    /\ forwarded_ok' = FALSE
    /\ apps_script_error' = None
    /\ inserted_id' = None
    /\ outcome' = ""
    /\ response' = None
    /\ post_calls' = 0
    /\ create_calls' = 0
    /\ stored' = None
    /\ sink_log' = <<>>
    /\ persist_failed' = FALSE
    /\ forward_kind' = "none"
    /\ UNCHANGED <<environ, startup_environ, env_changes>>

\* Lines 61-63: the accuracy gate.  float() of a malformed maximum raises a
\* ValueError nothing catches.
CheckAccuracy ==
    /\ pc = "l61"
    /\ LET max_accuracy ==
               ParseFloat(GetenvDefault("MAX_ALLOWED_ACCURACY_M", <<"5", "0">>))
       IN  IF max_accuracy.exc # ""
           THEN Leave("500 " \o max_accuracy.exc \o " line 61")
           ELSE IF Gt(payload.accuracy_m, max_accuracy.val)
           THEN Leave("400 accuracy")
           ELSE pc' = Goto("accuracy") /\ UNCHANGED <<outcome, response>>
    /\ UNCHANGED <<environ, startup_environ, env_changes, payload, locals, history>>

\* The condition of a conditional expression of lines 73-75: the first read
\* of the variable
TestEnv(here, name, float_pc, next_pc) ==
    /\ pc = here
    /\ pc' = IF Truthy(Getenv(name)) THEN float_pc ELSE next_pc
    /\ UNCHANGED <<environ, startup_environ, env_changes, payload, locals,
                   outcome, response, history>>

\* no except clause: the ValueError reaches the caller
GeofenceValueError_Uncaught ==
    /\ Leave("500 ValueError lines 73-84")
    /\ UNCHANGED geofence_ok

\* Lines 88-90: except ValueError
GeofenceValueError ==
    /\ pc' = Goto("geofence")
    /\ geofence_ok' = None
    /\ UNCHANGED <<outcome, response>>

\* float(os.getenv(name)) of lines 73-75: the second read of the variable.
\* ValueError is caught at line 88; TypeError, raised by float(None), is not.
FloatEnv(here, name, next_pc) ==
    /\ pc = here
    /\ LET f == ParseFloat(Getenv(name))
       IN  CASE f.exc = "" ->
                  /\ pc' = next_pc
                  /\ office_lat' = IF name = "OFFICE_LAT" THEN Some(f.val) ELSE office_lat
                  /\ office_lng' = IF name = "OFFICE_LNG" THEN Some(f.val) ELSE office_lng
                  /\ office_radius' =
                         IF name = "OFFICE_RADIUS_M" THEN Some(f.val) ELSE office_radius
                  /\ UNCHANGED <<geofence_ok, outcome, response>>
             [] f.exc = "ValueError" ->
                  /\ GeofenceValueError
                  /\ UNCHANGED <<office_lat, office_lng, office_radius>>
             [] OTHER ->
                  /\ Leave("500 " \o f.exc \o " lines 73-75")
                  /\ UNCHANGED <<office_lat, office_lng, office_radius, geofence_ok>>
    /\ UNCHANGED <<environ, startup_environ, env_changes, payload, dist_m, record,
                   apps_script_url, photo_url_from_apps, forwarded_ok,
                   apps_script_error, inserted_id, history>>

TestLat == TestEnv("l73", "OFFICE_LAT", "l73f", "l74")

FloatLat == FloatEnv("l73f", "OFFICE_LAT", "l74")

TestLng == TestEnv("l74", "OFFICE_LNG", "l74f", "l75")

FloatLng == FloatEnv("l74f", "OFFICE_LNG", "l75")

TestRadius == TestEnv("l75", "OFFICE_RADIUS_M", "l75f", "l76")

FloatRadius == FloatEnv("l75f", "OFFICE_RADIUS_M", "l76")

\* Lines 76-87: the geofence gate
Geofence ==
    /\ pc = "l76"
    /\ IF IsNone(office_lat) \/ IsNone(office_lng) \/ IsNone(office_radius)
       THEN /\ pc' = Goto("geofence")
            /\ UNCHANGED <<dist_m, geofence_ok, outcome, response>>
       ELSE LET d == Haversine(payload.latitude, payload.longitude,
                               Val(office_lat), Val(office_lng))
            IN  IF d.exc # ""
                THEN \* math domain error
                     /\ GeofenceValueError
                     /\ UNCHANGED dist_m
                ELSE /\ dist_m' = Some(d.val)
                     /\ geofence_ok' = Some(Leq(d.val, Val(office_radius)))
                     /\ IF Leq(d.val, Val(office_radius))
                        THEN pc' = Goto("geofence") /\ UNCHANGED <<outcome, response>>
                        ELSE Leave("400 geofence")
    /\ UNCHANGED <<environ, startup_environ, env_changes, payload, office_lat,
                   office_lng, office_radius, record, apps_script_url,
                   photo_url_from_apps, forwarded_ok, apps_script_error,
                   inserted_id, history>>

\* Lines 93-104 (name, email, date, time and the photo are carried through
\* unchanged and are left out)
BuildRecord ==
    /\ pc = "l93"
    /\ record' = Some([latitude |-> payload.latitude,
                       longitude |-> payload.longitude,
                       accuracy_m |-> payload.accuracy_m,
                       photo_url |-> None,
                       geofence_ok |-> geofence_ok])
    /\ pc' = Goto("record")
    /\ UNCHANGED <<environ, startup_environ, env_changes, payload, office_lat,
                   office_lng, office_radius, dist_m, geofence_ok, apps_script_url,
                   photo_url_from_apps, forwarded_ok, apps_script_error,
                   inserted_id, outcome, response, history>>

\* an endpoint set to the empty string counts as configured
Configured_NotNone(url) == ~IsNone(url)

\* Line 112: if apps_script_url
Configured(url) == Truthy(url)

\* Lines 107-112
ReadUrl ==
    /\ pc = "l107"
    /\ apps_script_url' = Getenv("APPS_SCRIPT_URL")
    /\ photo_url_from_apps' = None
    /\ forwarded_ok' = FALSE
    /\ apps_script_error' = None
    /\ pc' = IF Configured(Getenv("APPS_SCRIPT_URL")) THEN "l128" ELSE Goto("forward")
    /\ UNCHANGED <<environ, startup_environ, env_changes, payload, office_lat,
                   office_lng, office_radius, dist_m, geofence_ok, record,
                   inserted_id, outcome, response, history>>

\* data.get("photoUrl") or data.get("photo_url"), line 133
PhotoOf(reply) ==
    IF ~IsNone(reply.photoUrl) /\ Val(reply.photoUrl) # ""
    THEN reply.photoUrl
    ELSE reply.photo_url

\* the body is decoded outside the inner try: a malformed body is caught at
\* line 138 and reported
OnReply_MalformedReported(reply) ==
    /\ IF reply.status = 200
       THEN /\ forwarded_ok' = TRUE
            /\ photo_url_from_apps' =
                   IF reply.kind = "object" THEN PhotoOf(reply) ELSE None
            /\ forward_kind' = IF reply.kind = "object" THEN "ok" ELSE "malformed"
            /\ apps_script_error' =
                   IF reply.kind = "object" THEN apps_script_error
                   ELSE Some("Expecting value")
       ELSE /\ apps_script_error' = Some("Apps Script HTTP 500: body")
            /\ forward_kind' = "status"
            /\ UNCHANGED <<forwarded_ok, photo_url_from_apps>>
    /\ pc' = Goto("forward")
    /\ UNCHANGED <<outcome, response>>

\* Lines 129-137: requests.post returned a reply.  resp.json() raises on a
\* body that is not JSON and data.get raises on a body that is not an
\* object; both are passed over at line 134.
OnReply(reply) ==
    /\ IF reply.status = 200
       THEN /\ forwarded_ok' = TRUE
            /\ photo_url_from_apps' =
                   IF reply.kind = "object" THEN PhotoOf(reply) ELSE None
            /\ forward_kind' = IF reply.kind = "object" THEN "ok" ELSE "malformed"
            /\ UNCHANGED apps_script_error
       ELSE /\ apps_script_error' = Some("Apps Script HTTP 500: body")
            /\ forward_kind' = "status"
            /\ UNCHANGED <<forwarded_ok, photo_url_from_apps>>
    /\ pc' = Goto("forward")
    /\ UNCHANGED <<outcome, response>>

\* no except clause: the exception of requests.post reaches the caller
OnTransportError_Uncaught(e) ==
    /\ forward_kind' = "transport"
    /\ Leave("500 RequestException line 128")
    /\ UNCHANGED <<forwarded_ok, photo_url_from_apps, apps_script_error>>

\* Lines 138-139: requests.post raised (connection error, timeout)
OnTransportError(e) ==
    /\ apps_script_error' = Some(e)
    /\ forward_kind' = "transport"
    /\ pc' = Goto("forward")
    /\ UNCHANGED <<forwarded_ok, photo_url_from_apps, outcome, response>>

\* Lines 128-139: the blocking call of the forwarder and what it leaves
Forward ==
    /\ pc = "l128"
    /\ post_calls' = post_calls + 1
    /\ sink_log' = Append(sink_log, "post")
    /\ \/ \E reply \in Replies : OnReply(reply)
       \/ \E e \in TransportErrors : OnTransportError(e)
    /\ UNCHANGED <<environ, startup_environ, env_changes, payload, office_lat,
                   office_lng, office_radius, dist_m, geofence_ok, record,
                   apps_script_url, inserted_id, create_calls, stored,
                   persist_failed>>

\* the photo URL of the forwarder is written into the record before it is
\* stored
Document_WithPhoto == Some([Val(record) EXCEPT !.photo_url = photo_url_from_apps])

\* Line 143: the document handed to create_document
Document == record

\* a failed write also marks the submission as not forwarded
OnPersistError_ClearsForwarded ==
    /\ inserted_id' = None
    /\ persist_failed' = TRUE
    /\ forwarded_ok' = FALSE
    /\ pc' = Goto("persist")
    /\ UNCHANGED <<apps_script_error, outcome, response>>

\* Lines 144-145: create_document raised
OnPersistError ==
    /\ inserted_id' = None
    /\ persist_failed' = TRUE
    /\ pc' = Goto("persist")
    /\ UNCHANGED <<forwarded_ok, apps_script_error, outcome, response>>

\* Lines 142-145: create_document returns an identifier or raises
Persist ==
    /\ pc = "l143"
    /\ create_calls' = create_calls + 1
    /\ sink_log' = Append(sink_log, "create")
    /\ stored' = Document
    /\ \/ /\ inserted_id' = Some("id")
          /\ persist_failed' = FALSE
          /\ pc' = Goto("persist")
          /\ UNCHANGED <<forwarded_ok, apps_script_error, outcome, response>>
       \/ OnPersistError
    /\ UNCHANGED <<environ, startup_environ, env_changes, payload, office_lat,
                   office_lng, office_radius, dist_m, geofence_ok, record,
                   apps_script_url, photo_url_from_apps, post_calls, forward_kind>>

\* os.getenv("SHEETS_DASHBOARD_URL") or None, line 163
DashboardUrl(url) == IF Truthy(url) THEN url ELSE None

\* Lines 148-164
Respond ==
    /\ pc = "l148"
    /\ response' =
         Some([success |-> TRUE,
               id |-> inserted_id,
               latitude |-> Val(record).latitude,
               longitude |-> Val(record).longitude,
               accuracy_m |-> Val(record).accuracy_m,
               geofence_ok |-> Val(record).geofence_ok,
               photo_url |-> photo_url_from_apps,
               apps_script_forwarded |-> forwarded_ok,
               apps_script_error |-> apps_script_error,
               dashboard_url |-> DashboardUrl(Getenv("SHEETS_DASHBOARD_URL"))])
    /\ outcome' = "200"
    /\ pc' = "done"
    /\ UNCHANGED <<environ, startup_environ, env_changes, payload, locals, history>>

\* os.environ is a mutable mapping of the process: any code of the process
\* may assign to it or delete from it while the server runs
SetEnv ==
    /\ env_changes < MaxEnvChanges
    /\ \E n \in EnvNames : \E v \in EnvValues(n) :
          /\ v # environ[n]
          /\ environ' = [environ EXCEPT ![n] = v]
    /\ env_changes' = env_changes + 1
    /\ UNCHANGED <<startup_environ, pc, payload, locals, outcome, response, history>>

Next ==
    \/ Submit
    \/ CheckAccuracy
    \/ TestLat
    \/ FloatLat
    \/ TestLng
    \/ FloatLng
    \/ TestRadius
    \/ FloatRadius
    \/ Geofence
    \/ BuildRecord
    \/ ReadUrl
    \/ Forward
    \/ Persist
    \/ Respond

\* the environment stays as it was at startup
Spec == Init /\ [][Next]_vars

InitEnv == Init /\ \A n \in EnvNames : environ[n] \in {None, WellFormed(n)}

NextEnv == Next \/ SetEnv

\* the environment may change while the server runs
SpecEnv == InitEnv /\ [][NextEnv]_vars

----------------------------------------------------------------------------
(* The gates as a function of one snapshot of the configuration *)

GeofenceVars == {"OFFICE_LAT", "OFFICE_LNG", "OFFICE_RADIUS_M"}

\* Lines 61-90 with every os.getenv answered from the one mapping e: the
\* outcome of the two gates and the geofence verdict of payload p
Gates(e, p) ==
    LET max_accuracy ==
            ParseFloat(IF IsNone(e["MAX_ALLOWED_ACCURACY_M"])
                       THEN Some(<<"5", "0">>) ELSE e["MAX_ALLOWED_ACCURACY_M"])
        F(n) == IF Truthy(e[n]) THEN ParseFloat(e[n]) ELSE [exc |-> "unset", val |-> NaN]
        d == Haversine(p.latitude, p.longitude,
                       F("OFFICE_LAT").val, F("OFFICE_LNG").val)
    IN  IF max_accuracy.exc # ""
        THEN [outcome |-> "500 ValueError line 61", geofence_ok |-> None]
        ELSE IF Gt(p.accuracy_m, max_accuracy.val)
        THEN [outcome |-> "400 accuracy", geofence_ok |-> None]
        ELSE IF \E n \in GeofenceVars : F(n).exc # ""
        THEN [outcome |-> "200", geofence_ok |-> None]
        ELSE IF d.exc # ""
        THEN [outcome |-> "200", geofence_ok |-> None]
        ELSE IF Leq(d.val, F("OFFICE_RADIUS_M").val)
        THEN [outcome |-> "200", geofence_ok |-> Some(TRUE)]
        ELSE [outcome |-> "400 geofence", geofence_ok |-> Some(FALSE)]

----------------------------------------------------------------------------
(* Properties *)

\* the variable is unset, empty, or float() raises ValueError on it
Unusable(os) == ~Truthy(os) \/ ParseFloat(os).exc = "ValueError"

AllConfigured == \A n \in GeofenceVars : ~Unusable(environ[n])

Accepted == pc = "done" /\ outcome = "200"

Rejected == pc = "done" /\ outcome \in {"400 accuracy", "400 geofence"}

\* C1: a run that ends in a rejection by the accuracy gate or by the geofence
\* gate has called no sink: no forwarder POST, no create_document.
C1_NoSinkOnRejection ==
    Rejected =>
        /\ post_calls = 0
        /\ create_calls = 0
        /\ sink_log = <<>>
        /\ IsNone(stored)

\* a geofence rejection (distance above the radius) with a forwarder endpoint
\* configured
C1_Witness ==
    /\ pc = "done"
    /\ outcome = "400 geofence"
    /\ AllConfigured
    /\ ~IsNone(dist_m)
    /\ Gt(Val(dist_m), Val(office_radius))
    /\ Truthy(environ["APPS_SCRIPT_URL"])

\* C2: when the forwarder call fails (non-200 status, transport error or
\* timeout) the persistence write is still attempted and the caller gets
\* success = true, apps_script_forwarded = false and a non-null
\* apps_script_error.
C2_ForwardFailureIsolated ==
    (pc = "done" /\ forward_kind \in {"status", "transport"}) =>
        /\ outcome = "200"
        /\ create_calls = 1
        /\ Val(response).success = TRUE
        /\ Val(response).apps_script_forwarded = FALSE
        /\ ~IsNone(Val(response).apps_script_error)

\* a transport error whose text is the empty string, followed by a
\* successful write
C2_Witness ==
    /\ Accepted
    /\ forward_kind = "transport"
    /\ Val(response).apps_script_error = Some("")
    /\ create_calls = 1
    /\ ~persist_failed

\* C3: when create_document fails the caller still gets success = true with
\* id = null and no exception, and the write leaves forwarded_ok,
\* apps_script_error, geofence_ok, the photo URL and the record as they were
\* before it, so the response carries the values it would carry after a
\* successful write.
C3_PersistFailureIsolated ==
    /\ []((pc = "done" /\ persist_failed) =>
            /\ outcome = "200"
            /\ Val(response).success = TRUE
            /\ IsNone(Val(response).id)
            /\ Val(response).apps_script_forwarded = forwarded_ok
            /\ Val(response).apps_script_error = apps_script_error
            /\ Val(response).geofence_ok = geofence_ok)
    /\ [][pc = "l143" =>
            UNCHANGED <<forwarded_ok, apps_script_error, geofence_ok,
                        photo_url_from_apps, record>>]_vars

\* a failed write after a successful forward inside the geofence
C3_Witness ==
    /\ Accepted
    /\ persist_failed
    /\ Val(response).apps_script_forwarded = TRUE
    /\ Val(response).geofence_ok = Some(TRUE)

\* C4: when at least one of OFFICE_LAT, OFFICE_LNG, OFFICE_RADIUS_M is unset
\* or not a number, the geofence verdict is None for every submission, the
\* geofence step raises nothing and rejects nothing.
C4_PartialConfigIsUnconfigured ==
    (\E n \in GeofenceVars : Unusable(environ[n])) =>
        /\ IsNone(geofence_ok)
        /\ IsNone(dist_m)
        /\ outcome \in {"", "200", "400 accuracy", "500 ValueError line 61"}
        /\ (outcome = "200" => IsNone(Val(response).geofence_ok))

\* latitude well-formed, longitude unset, radius not a number, and a
\* submission off the office latitude is accepted
C4_Witness ==
    /\ Accepted
    /\ environ["OFFICE_LAT"] = S(<<"0">>)
    /\ environ["OFFICE_LNG"] = None
    /\ environ["OFFICE_RADIUS_M"] = S(<<"x">>)
    /\ payload.latitude = Fin(1)

\* C5: with all three geofence values configured, a submission that passes
\* the accuracy gate is accepted with geofence_ok = true exactly when its
\* distance is at most the radius and is rejected with a 400 otherwise; a
\* success response never carries geofence_ok = false.
C5_OutsideIsHardRejection ==
    /\ (pc = "done" /\ AllConfigured
          /\ outcome \notin {"400 accuracy", "500 ValueError line 61"}) =>
            \/ /\ outcome = "200"
               /\ Val(response).geofence_ok = Some(TRUE)
               /\ ~IsNone(dist_m)
               /\ Leq(Val(dist_m), Val(office_radius))
            \/ /\ outcome = "400 geofence"
               /\ ~IsNone(dist_m)
               /\ ~Leq(Val(dist_m), Val(office_radius))
    /\ Accepted => Val(response).geofence_ok \in {Some(TRUE), None}

\* C6: with APPS_SCRIPT_URL unset or empty, an accepted submission makes no
\* forwarder call, attempts the write once, and answers
\* apps_script_forwarded = false, apps_script_error = null, photo_url = null.
C6_NoEndpointSkipsForwarder ==
    (Accepted /\ ~Truthy(environ["APPS_SCRIPT_URL"])) =>
        /\ post_calls = 0
        /\ create_calls = 1
        /\ Val(response).apps_script_forwarded = FALSE
        /\ IsNone(Val(response).apps_script_error)
        /\ IsNone(Val(response).photo_url)

\* the endpoint is set to the empty string
C6_Witness ==
    /\ Accepted
    /\ environ["APPS_SCRIPT_URL"] = S(<<>>)
    /\ create_calls = 1

\* C7 as stated: every forwarder failure, a malformed body of a reply
\* included, is not fatal, shows in the response (apps_script_forwarded =
\* false or apps_script_error non-null) and is followed by the write.
C7_EveryFailureRecorded ==
    (pc = "done" /\ forward_kind \in {"status", "transport", "malformed"}) =>
        /\ outcome = "200"
        /\ create_calls = 1
        /\ \/ Val(response).apps_script_forwarded = FALSE
           \/ ~IsNone(Val(response).apps_script_error)

\* C7 as amended: every forwarder failure is not fatal and is followed by the
\* write; a bad status, a transport error and a timeout show in the response
\* (apps_script_forwarded = false, apps_script_error non-null), while a
\* malformed body of a 200 reply leaves apps_script_forwarded = true,
\* apps_script_error = null and photo_url = null.
C7_FailuresNonFatal ==
    (pc = "done" /\ forward_kind \in {"status", "transport", "malformed"}) =>
        /\ outcome = "200"
        /\ create_calls = 1
        /\ IF forward_kind = "malformed"
           THEN /\ Val(response).apps_script_forwarded = TRUE
                /\ IsNone(Val(response).apps_script_error)
                /\ IsNone(Val(response).photo_url)
           ELSE /\ Val(response).apps_script_forwarded = FALSE
                /\ ~IsNone(Val(response).apps_script_error)

\* a 200 reply with a malformed body, then the write
C7_Witness ==
    /\ Accepted
    /\ forward_kind = "malformed"
    /\ sink_log = <<"post", "create">>

\* C8: the configuration is what the environment held at startup: the
\* outcome of the gates, the geofence verdict, the sinks called and the
\* dashboard URL of every answered submission are those of the startup
\* environment, whatever happened to the environment since.
C8_ConfigFixedAtStartup ==
    pc = "done" =>
        /\ outcome = Gates(startup_environ, payload).outcome
        /\ Accepted =>
             /\ Val(response).geofence_ok = Gates(startup_environ, payload).geofence_ok
             /\ post_calls = IF Truthy(startup_environ["APPS_SCRIPT_URL"]) THEN 1 ELSE 0
             /\ Val(response).dashboard_url =
                    DashboardUrl(startup_environ["SHEETS_DASHBOARD_URL"])

\* C9: one submission is one pass with no retry: the write is attempted
\* exactly once, the forwarder is called once when an endpoint is configured
\* and not at all otherwise, the forwarder call is over before the write
\* starts, and the response exists only when both are over.
C9_OnePassNoRetry ==
    /\ post_calls <= 1
    /\ create_calls <= 1
    /\ pc = "l128" => create_calls = 0
    /\ ~IsNone(response) => pc = "done"
    /\ Accepted =>
         /\ create_calls = 1
         /\ post_calls = IF Truthy(environ["APPS_SCRIPT_URL"]) THEN 1 ELSE 0
         /\ sink_log = IF Truthy(environ["APPS_SCRIPT_URL"])
                       THEN <<"post", "create">> ELSE <<"create">>

\* the forward and the write both failed, each attempted once
C9_Witness ==
    /\ Accepted
    /\ forward_kind = "transport"
    /\ persist_failed
    /\ post_calls = 1
    /\ create_calls = 1

\* C10: in every success response apps_script_forwarded = true implies
\* apps_script_error = null and a non-null photo_url implies
\* apps_script_forwarded = true; the record handed to the store always has
\* photo_url = null.
C10_ForwarderFieldsConsistent ==
    /\ Accepted =>
         /\ Val(response).apps_script_forwarded = TRUE
               => IsNone(Val(response).apps_script_error)
         /\ ~IsNone(Val(response).photo_url)
               => Val(response).apps_script_forwarded = TRUE
    /\ ~IsNone(stored) => IsNone(Val(stored).photo_url)

\* the forwarder returned a photo URL, echoed in the response and absent
\* from the stored record
C10_Witness ==
    /\ Accepted
    /\ Val(response).photo_url = Some("p")
    /\ ~IsNone(stored)
    /\ IsNone(Val(stored).photo_url)

====
